---- MODULE Spec2Model ----
(***************************************************************************)
(* Model of sam_subsample (src/src/main.rs): one forward pass over a       *)
(* record stream, grouping of consecutive records with equal query name    *)
(* into templates, reservoir sampling of the templates into the vector v,  *)
(* and emission of v to the output writer.                                 *)
(*                                                                         *)
(* A record is [key |-> query name, id |-> position in the input]; the id  *)
(* stands for the opaque payload and makes every record distinct.  A draw  *)
(* f of the generator is the numerator of the fraction f / FDen in [0,1).  *)
(***************************************************************************)
EXTENDS Integers, Sequences, FiniteSets

\* ---- bounds of the model ------------------------------------------------
MaxRecs == 4      \* records the source yields at most
NumKeys == 3      \* distinct query names
MaxNum  == 3      \* largest --num
FDen    == 4      \* resolution of a draw: f ranges over 0/FDen .. (FDen-1)/FDen

Keys  == 1..NumKeys
NoKey == 0        \* Option::None of rid_prev
Draw  == 0..(FDen - 1)

VARIABLES
    num,       \* params.num, the capacity N
    k,         \* templates resolved so far
    v,         \* the reservoir: Vec<RecordSet>
    rs,        \* the template in progress: RecordSet
    rid_prev,  \* query name of the previous record, NoKey before the first
    pc,        \* "read" | "write" | "done" | "abort"
    err,       \* "none" | "source" | "sink" | "index"
    ws, wr,    \* position of the emission loops: slot ws, wr records of it written
    sink,      \* records written to outfh, in order
    src,       \* history: records the source has yielded, in order
    handed,    \* history: the record sets on which the decision was made, in order
    ndraws,    \* history: number of rng.gen() calls
    lastf      \* history: the value of the latest rng.gen(), -1 before the first

vars == <<num, k, v, rs, rid_prev, pc, err, ws, wr, sink, src, handed, ndraws, lastf>>

\* ---- helpers --------------------------------------------------------------
Range(s) == {s[x] : x \in DOMAIN s}

Min(a, b) == IF a < b THEN a ELSE b

RECURSIVE Flatten(_)
Flatten(ss) == IF ss = <<>> THEN <<>> ELSE Head(ss) \o Flatten(Tail(ss))

\* Variant of CandidateIndex: the product is rounded to nearest, not truncated.
CandidateIndex_Round(fn, kk) == (2 * fn * kk + FDen) \div (2 * FDen)

\* Variant of CandidateIndex: the count after incrementing is the factor.
CandidateIndex_PostIncrement(fn, kk) == (fn * (kk + 1)) \div FDen

\* (f * (k as f64)) as usize, with f = fn / FDen: the floor of fn * kk / FDen
CandidateIndex(fn, kk) == (fn * kk) \div FDen

\* Variant of Place: the filling test is k <= num.
Place_LeqFill(vv, kk, n, t, i) ==
    IF kk <= n
    THEN [v |-> Append(vv, t), drew |-> FALSE, oob |-> FALSE]
    ELSE IF i < n
         THEN IF i < Len(vv)
              THEN [v |-> [vv EXCEPT ![i + 1] = t], drew |-> TRUE, oob |-> FALSE]
              ELSE [v |-> vv, drew |-> TRUE, oob |-> TRUE]
         ELSE [v |-> vv, drew |-> TRUE, oob |-> FALSE]

\* Variant of Place: the filling test is k + 1 < num.
Place_ShortFill(vv, kk, n, t, i) ==
    IF kk + 1 < n
    THEN [v |-> Append(vv, t), drew |-> FALSE, oob |-> FALSE]
    ELSE IF i < n
         THEN IF i < Len(vv)
              THEN [v |-> [vv EXCEPT ![i + 1] = t], drew |-> TRUE, oob |-> FALSE]
              ELSE [v |-> vv, drew |-> TRUE, oob |-> TRUE]
         ELSE [v |-> vv, drew |-> TRUE, oob |-> FALSE]

\* Variant of Place: an accepted template is pushed instead of stored in v[i].
Place_PushOnReplace(vv, kk, n, t, i) ==
    IF kk < n
    THEN [v |-> Append(vv, t), drew |-> FALSE, oob |-> FALSE]
    ELSE IF i < n
         THEN [v |-> Append(vv, t), drew |-> TRUE, oob |-> FALSE]
         ELSE [v |-> vv, drew |-> TRUE, oob |-> FALSE]

\* Variant of Place: a template placed while filling goes to the front of v.
Place_PushFront(vv, kk, n, t, i) ==
    IF kk < n
    THEN [v |-> <<t>> \o vv, drew |-> FALSE, oob |-> FALSE]
    ELSE IF i < n
         THEN IF i < Len(vv)
              THEN [v |-> [vv EXCEPT ![i + 1] = t], drew |-> TRUE, oob |-> FALSE]
              ELSE [v |-> vv, drew |-> TRUE, oob |-> TRUE]
         ELSE [v |-> vv, drew |-> TRUE, oob |-> FALSE]

\* Variant of Place: the index test is i <= num.
Place_LeqIndex(vv, kk, n, t, i) ==
    IF kk < n
    THEN [v |-> Append(vv, t), drew |-> FALSE, oob |-> FALSE]
    ELSE IF i <= n
         THEN IF i < Len(vv)
              THEN [v |-> [vv EXCEPT ![i + 1] = t], drew |-> TRUE, oob |-> FALSE]
              ELSE [v |-> vv, drew |-> TRUE, oob |-> TRUE]
         ELSE [v |-> vv, drew |-> TRUE, oob |-> FALSE]

\* Variant of Place: the draw is taken before the test k < num.
Place_DrawFirst(vv, kk, n, t, i) ==
    IF kk < n
    THEN [v |-> Append(vv, t), drew |-> TRUE, oob |-> FALSE]
    ELSE IF i < n
         THEN IF i < Len(vv)
              THEN [v |-> [vv EXCEPT ![i + 1] = t], drew |-> TRUE, oob |-> FALSE]
              ELSE [v |-> vv, drew |-> TRUE, oob |-> TRUE]
         ELSE [v |-> vv, drew |-> TRUE, oob |-> FALSE]

\* The two-branch decision on template t with pre-increment count kk, capacity
\* n and candidate index i (used only when kk >= n).  oob: v[i] indexes past
\* the end of v, which panics.
Place(vv, kk, n, t, i) ==
    IF kk < n
    THEN [v |-> Append(vv, t), drew |-> FALSE, oob |-> FALSE]
    ELSE IF i < n
         THEN IF i < Len(vv)
              THEN [v |-> [vv EXCEPT ![i + 1] = t], drew |-> TRUE, oob |-> FALSE]
              ELSE [v |-> vv, drew |-> TRUE, oob |-> TRUE]
         ELSE [v |-> vv, drew |-> TRUE, oob |-> FALSE]

Decide(vv, kk, n, t, fn) == Place(vv, kk, n, t, CandidateIndex(fn, kk))

\* ---- initial state: after line 177 ---------------------------------------
Init ==
    /\ num \in 0..MaxNum
    /\ k = 0
    /\ v = <<>>
    /\ rs = <<>>
    /\ rid_prev = NoKey
    /\ pc = "read"
    /\ err = "none"
    /\ ws = 1
    /\ wr = 0
    /\ sink = <<>>
    /\ src = <<>>
    /\ handed = <<>>
    /\ ndraws = 0
    /\ lastf = -1

NewRecord(key) == [key |-> key, id |-> Len(src) + 1]

\* Ok(r), first record or same query name as the previous one: cache it
Cache(key) ==
    /\ pc = "read"
    /\ Len(src) < MaxRecs
    /\ rid_prev = NoKey \/ rid_prev = key
    /\ rid_prev' = key
    /\ rs' = Append(rs, NewRecord(key))
    /\ src' = Append(src, NewRecord(key))
    /\ UNCHANGED <<num, k, v, pc, err, ws, wr, sink, handed, ndraws, lastf>>

\* Variant of Resolve: a query name that was seen before aborts the run.
Resolve_Validating(key, fn) ==
    /\ pc = "read"
    /\ Len(src) < MaxRecs
    /\ rid_prev # NoKey /\ rid_prev # key
    /\ LET d    == Decide(v, k, num, rs, fn)
           seen == \E x \in DOMAIN src : src[x].key = key
       IN
         /\ handed' = Append(handed, rs)
         /\ ndraws' = IF d.drew THEN ndraws + 1 ELSE ndraws
         /\ lastf' = IF d.drew THEN fn ELSE lastf
         /\ src' = Append(src, NewRecord(key))
         /\ IF d.oob \/ seen
            THEN /\ pc' = "abort"
                 /\ err' = IF seen THEN "order" ELSE "index"
                 /\ UNCHANGED <<k, v, rs, rid_prev>>
            ELSE /\ v' = d.v
                 /\ rid_prev' = key
                 /\ rs' = <<NewRecord(key)>>
                 /\ k' = k + 1
                 /\ UNCHANGED <<pc, err>>
    /\ UNCHANGED <<num, ws, wr, sink>>

\* Variant of Resolve: a template placed while the reservoir is filling is
\* written to the output at once.
Resolve_Eager(key, fn) ==
    /\ pc = "read"
    /\ Len(src) < MaxRecs
    /\ rid_prev # NoKey /\ rid_prev # key
    /\ LET d == Decide(v, k, num, rs, fn) IN
         /\ handed' = Append(handed, rs)
         /\ ndraws' = IF d.drew THEN ndraws + 1 ELSE ndraws
         /\ lastf' = IF d.drew THEN fn ELSE lastf
         /\ src' = Append(src, NewRecord(key))
         /\ sink' = IF d.drew THEN sink ELSE sink \o rs
         /\ IF d.oob
            THEN /\ pc' = "abort"
                 /\ err' = "index"
                 /\ UNCHANGED <<k, v, rs, rid_prev>>
            ELSE /\ v' = d.v
                 /\ rid_prev' = key
                 /\ rs' = <<NewRecord(key)>>
                 /\ k' = k + 1
                 /\ UNCHANGED <<pc, err>>
    /\ UNCHANGED <<num, ws, wr>>

\* Ok(r), a new query name: decide on the cached template, then cache r
Resolve(key, fn) ==
    /\ pc = "read"
    /\ Len(src) < MaxRecs
    /\ rid_prev # NoKey /\ rid_prev # key
    /\ LET d == Decide(v, k, num, rs, fn) IN
         /\ handed' = Append(handed, rs)
         /\ ndraws' = IF d.drew THEN ndraws + 1 ELSE ndraws
         /\ lastf' = IF d.drew THEN fn ELSE lastf
         /\ src' = Append(src, NewRecord(key))
         /\ IF d.oob
            THEN /\ pc' = "abort"
                 /\ err' = "index"
                 /\ UNCHANGED <<k, v, rs, rid_prev>>
            ELSE /\ v' = d.v
                 /\ rid_prev' = key
                 /\ rs' = <<NewRecord(key)>>
                 /\ k' = k + 1
                 /\ UNCHANGED <<pc, err>>
    /\ UNCHANGED <<num, ws, wr, sink>>

\* Err(e): error!(...); panic!()
SourceError ==
    /\ pc = "read"
    /\ pc' = "abort"
    /\ err' = "source"
    /\ UNCHANGED <<num, k, v, rs, rid_prev, ws, wr, sink, src, handed, ndraws, lastf>>

\* the iterator is exhausted: decide on the cached record set, rs.clear()
EndOfStream(fn) ==
    /\ pc = "read"
    /\ LET d == Decide(v, k, num, rs, fn) IN
         /\ handed' = Append(handed, rs)
         /\ ndraws' = IF d.drew THEN ndraws + 1 ELSE ndraws
         /\ lastf' = IF d.drew THEN fn ELSE lastf
         /\ IF d.oob
            THEN /\ pc' = "abort"
                 /\ err' = "index"
                 /\ UNCHANGED <<v, rs>>
            ELSE /\ v' = d.v
                 /\ rs' = <<>>
                 /\ pc' = "write"
                 /\ UNCHANGED err
    /\ UNCHANGED <<num, k, rid_prev, ws, wr, sink, src>>

\* Variant of WriteRecord: the records of a slot are written last to first.
WriteRecord_Reversed ==
    /\ pc = "write"
    /\ ws <= Len(v)
    /\ wr < Len(v[ws])
    /\ sink' = Append(sink, v[ws][Len(v[ws]) - wr])
    /\ wr' = wr + 1
    /\ UNCHANGED <<num, k, v, rs, rid_prev, pc, err, ws, src, handed, ndraws, lastf>>

\* for rs in &v { for r in rs { outfh.write(&r).unwrap() } }: one record
WriteRecord ==
    /\ pc = "write"
    /\ ws <= Len(v)
    /\ wr < Len(v[ws])
    /\ sink' = Append(sink, v[ws][wr + 1])
    /\ wr' = wr + 1
    /\ UNCHANGED <<num, k, v, rs, rid_prev, pc, err, ws, src, handed, ndraws, lastf>>

\* outfh.write(&r) returns Err: unwrap() panics
WriteError ==
    /\ pc = "write"
    /\ ws <= Len(v)
    /\ wr < Len(v[ws])
    /\ pc' = "abort"
    /\ err' = "sink"
    /\ UNCHANGED <<num, k, v, rs, rid_prev, ws, wr, sink, src, handed, ndraws, lastf>>

\* the inner loop is over: next record set of v
NextSlot ==
    /\ pc = "write"
    /\ ws <= Len(v)
    /\ wr = Len(v[ws])
    /\ ws' = ws + 1
    /\ wr' = 0
    /\ UNCHANGED <<num, k, v, rs, rid_prev, pc, err, sink, src, handed, ndraws, lastf>>

\* the outer loop is over: info!("All done.")
Finish ==
    /\ pc = "write"
    /\ ws > Len(v)
    /\ pc' = "done"
    /\ UNCHANGED <<num, k, v, rs, rid_prev, err, ws, wr, sink, src, handed, ndraws, lastf>>

Next ==
    \/ \E key \in Keys : Cache(key)
    \/ \E key \in Keys, fn \in Draw : Resolve(key, fn)
    \/ SourceError
    \/ \E fn \in Draw : EndOfStream(fn)
    \/ WriteRecord
    \/ WriteError
    \/ NextSlot
    \/ Finish

Spec == Init /\ [][Next]_vars

\* ---- reference notions used by the properties ------------------------------
\* the maximal runs of consecutive records with equal key, in order
RECURSIVE Runs(_)
Runs(s) ==
    IF s = <<>> THEN <<>>
    ELSE LET n    == Len(s)
             init == SubSeq(s, 1, n - 1)
             g    == Runs(init)
         IN IF init # <<>> /\ s[n - 1].key = s[n].key
            THEN [g EXCEPT ![Len(g)] = Append(@, s[n])]
            ELSE Append(g, <<s[n]>>)

\* all records of one key are contiguous
Grouped(s) ==
    \A a, b, c \in DOMAIN s :
        (a < b /\ b < c /\ s[a].key = s[c].key) => s[b].key = s[a].key

\* K, the number of templates of the input read so far
NTemplates == Len(Runs(src))

IsPrefix(s, t) == Len(s) <= Len(t) /\ SubSeq(t, 1, Len(s)) = s

\* The candidate indices floor(f * kk) of a uniform f in [0,1): 0 .. kk-1,
\* each with the same probability.
IndexOutcomes(n, K) ==
    {d \in [n..(K - 1) -> 0..(K - 1)] : \A kk \in n..(K - 1) : d[kk] < kk}

\* the reservoir after templates 1..j (named by arrival number) under the
\* candidate indices d
RECURSIVE SlotsAfter(_, _, _)
SlotsAfter(n, j, d) ==
    IF j = 0 THEN <<>>
    ELSE Place(SlotsAfter(n, j - 1, d), j - 1, n, j,
               IF j - 1 >= n THEN d[j - 1] ELSE 0).v

InclusionCount(n, K, j) ==
    Cardinality({d \in IndexOutcomes(n, K) : j \in Range(SlotsAfter(n, K, d))})

\* ---- properties ------------------------------------------------------------

\* C1: when the run finishes, the reservoir holds min(N, K) templates.
C1_SizeIsMin ==
    pc = "done" => Len(v) = Min(num, NTemplates)

\* C2: for K > N >= 1, every template is in the final reservoir in the same
\* fraction N/K of the equally likely outcomes of the candidate indices.
C2_EquallyLikely ==
    (pc = "done" /\ num >= 1 /\ NTemplates > num) =>
        \A j \in 1..NTemplates :
            InclusionCount(num, NTemplates, j) * NTemplates
                = num * Cardinality(IndexOutcomes(num, NTemplates))

\* C4: for a grouped input, the record sets handed to the decision are exactly
\* the maximal runs of equal key of the input, in input order.
C4_Grouping ==
    Grouped(src) =>
        /\ pc = "read" =>
              /\ rs # <<>> => Append(handed, rs) = Runs(src)
              /\ rs = <<>> => handed = Runs(src)
        /\ pc \in {"write", "done"} => handed = Runs(src)

\* C5: when N >= K, every input template is retained in the final reservoir
\* and the templates of the output are exactly the templates of the input.
C5_AllRetained ==
    (pc = "done" /\ num >= NTemplates) =>
        /\ \A t \in Range(Runs(src)) : t \in Range(v)
        /\ Range(Runs(sink)) = Range(Runs(src))

C5_Witness ==
    pc = "done" /\ num >= NTemplates /\ NTemplates >= 2 /\ Len(src) > NTemplates

\* C6: with N = 0 the reservoir is empty in every state and nothing is written.
C6_ZeroCapacity ==
    num = 0 => (v = <<>> /\ sink = <<>>)

C6_Witness ==
    num = 0 /\ pc = "done" /\ NTemplates >= 3 /\ ndraws >= 3

\* C7: on empty input the run completes normally with an empty reservoir (no
\* slot holds an entry) and nothing written.
C7_EmptyInput ==
    (pc = "done" /\ src = <<>>) => (err = "none" /\ v = <<>> /\ sink = <<>>)

\* C8: the reservoir never holds more than N templates, and the only other
\* buffer, rs, holds just the template in progress (the last run of the input).
C8_Bounded ==
    /\ Len(v) <= num
    /\ \A x \in DOMAIN rs : rs[x].key = rid_prev
    /\ (pc = "read" /\ src # <<>> /\ err = "none") => rs = Runs(src)[NTemplates]
    /\ (pc = "read" /\ src = <<>>) => rs = <<>>
    /\ pc \in {"write", "done"} => rs = <<>>

C8_Witness ==
    /\ pc = "read" /\ num >= 1 /\ Len(v) = num /\ k > num /\ Len(rs) >= 2

\* C9: the output is the concatenation of the final reservoir's templates in
\* slot order, each in source order; what is written so far is a prefix of it.
C9_EmissionOrder ==
    /\ IsPrefix(sink, Flatten(v))
    /\ pc = "done" => sink = Flatten(v)

C9_Witness ==
    /\ pc = "done" /\ Len(v) >= 2
    /\ Len(v[1]) >= 2
    /\ v[1][1].id > v[2][1].id

\* C10: nothing is written while the source is being read, and a run aborted
\* by a source error has written nothing.
C10_NoEarlyWrite ==
    /\ pc = "read" => sink = <<>>
    /\ err = "source" => sink = <<>>

C10_Witness ==
    err = "source" /\ k >= 2 /\ Len(v) >= 1 /\ rs # <<>>
\* ---- notions used by the properties on single decisions ---------------------
\* the step makes a sampling decision (in the record loop or at stream end)
DecisionStep == Len(handed') = Len(handed) + 1

\* the record set the decision of this step is made on
Decided == handed'[Len(handed')]

\* floor(f * kk) for f = fn / FDen, by its defining inequalities
FloorOfProduct(fn, kk) ==
    CHOOSE j \in 0..kk : j * FDen <= fn * kk /\ fn * kk < (j + 1) * FDen

\* C11: a decision made with pre-increment count k >= N takes one draw f and
\* the index i = floor(f * k); if i < N the template replaces slot i and all
\* other slots are unchanged, otherwise the reservoir is unchanged.
C11_FullDecision ==
    [][(DecisionStep /\ k >= num) =>
          LET i == FloorOfProduct(lastf', k) IN
          /\ ndraws' = ndraws + 1
          /\ lastf' \in Draw
          /\ IF i < num
             THEN /\ i < Len(v)
                  /\ v' = [s \in DOMAIN v |-> IF s = i + 1 THEN Decided ELSE v[s]]
             ELSE v' = v]_vars

C11_Witness ==
    /\ num >= 2 /\ ndraws >= 2 /\ Len(handed) >= 4
    /\ \E s \in DOMAIN v : v[s] = handed[4]
    /\ handed[3] \notin Range(v)

\* C12: after each decision, the one at stream end included, k is the number
\* of templates observed so far.
C12_KCounts ==
    /\ pc = "read" => k = Len(handed)
    /\ pc \in {"write", "done"} => k = NTemplates

\* C13 (as claimed): the length of the reservoir is the same in every state.
C13_FixedLength ==
    [][Len(v') = Len(v)]_vars

\* C13 (amended): the reservoir starts empty and only grows, by one push per
\* decision made while k < N, up to length N; a decision made with k >= N
\* never changes its length.
C13_GrowsToCapacity ==
    [][/\ Len(v') <= num
       /\ Len(v') # Len(v) => (DecisionStep /\ k < num /\ v' = Append(v, Decided))
       /\ (DecisionStep /\ k < num) => Len(v') = Len(v) + 1
       /\ (DecisionStep /\ k >= num) => Len(v') = Len(v)]_vars

C13_Witness ==
    num >= 2 /\ Len(v) = num /\ ndraws >= 2 /\ handed[Len(handed)] \in Range(v)

\* C14: while k <= N the reservoir is the sequence of the templates resolved
\* so far, in arrival order (the template resolved with count k is in slot k);
\* with 1 <= K <= N the output is the input record sequence.
C14_FillKeepsOrder ==
    /\ Len(handed) <= num => v = handed
    /\ (pc = "done" /\ NTemplates >= 1 /\ NTemplates <= num) => sink = src

C14_Witness ==
    pc = "done" /\ NTemplates = num /\ num >= 3 /\ Len(src) > NTemplates /\ sink = src
Max(a, b) == IF a > b THEN a ELSE b

\* C15: an input whose keys reappear non-contiguously raises no error of its
\* own; every contiguous run is a template with its own decision.
C15_NoValidation ==
    ~Grouped(src) =>
        /\ err \in {"none", "source", "sink"}
        /\ pc = "read" => Append(handed, rs) = Runs(src)
        /\ pc \in {"write", "done"} => handed = Runs(src)

C15_Witness ==
    /\ ~Grouped(src) /\ pc = "done" /\ err = "none"
    /\ \E a, b \in DOMAIN v : a # b /\ v[a][1].key = v[b][1].key

\* C16: a slot is overwritten only when the reservoir holds exactly N
\* templates and the index is below N; no slot access is out of bounds.
C16_IndexSafety ==
    [][/\ err' # "index"
       /\ (DecisionStep /\ k >= num /\ FloorOfProduct(lastf', k) < num) =>
              (Len(v) = num /\ FloorOfProduct(lastf', k) < Len(v))]_vars

C16_Witness ==
    /\ num >= 1 /\ Len(handed) >= num + 2 /\ lastf >= 0
    /\ handed[Len(handed)] \in Range(v)
    /\ err = "none"

C18_FirstOverflowPlaced ==
    [][(DecisionStep /\ num >= 1 /\ k = num) =>
          \E s \in DOMAIN v' : v'[s] = Decided]_vars

C18_Witness ==
    /\ num >= 1 /\ Len(handed) = num + 1 /\ lastf = FDen - 1
    /\ handed[num + 1] \in Range(v)

\* C19: a decision takes no draw when k < N and exactly one when k >= N, no
\* other step takes a draw, and a finished run over K >= 1 templates has
\* taken max(K - N, 0) draws.
C19_DrawCount ==
    /\ [][ndraws' = ndraws + (IF DecisionStep /\ k >= num THEN 1 ELSE 0)]_vars
    /\ []((pc = "done" /\ NTemplates >= 1) => ndraws = Max(NTemplates - num, 0))

C19_Witness ==
    pc = "done" /\ num >= 1 /\ NTemplates >= num + 2 /\ ndraws = NTemplates - num
====
